---------------------------- MODULE Spec2Model ----------------------------
(***************************************************************************)
(* A model of kdtreed: the backtracking command parser (Expr, Match,       *)
(* IsAction ... ParseKDtreeCommand) and the per-connection session loop    *)
(* HandleRequest, in its two variants: src/daemon.go (store guarded by a   *)
(* mutex for writes, lenient on errors) and src/unnamed/part_000 (no       *)
(* mutex, log.Fatal on a read error).                                      *)
(*                                                                         *)
(* A Go string is modelled as a sequence of one-character strings.         *)
(***************************************************************************)
EXTENDS Integers, Sequences, FiniteSets, Bags, TLC

(***************************************************************************)
(* Bounds of the model.                                                    *)
(***************************************************************************)
\* numbers 0..MaxNum are written in decimal into the generated lines
MaxNum == 10
\* runs of 0..MaxSpaces spaces are put between the tokens of generated lines
MaxSpaces == 2
\* connections accepted by the server
NumSessions == 2
\* lines the clients send in all, over all the connections
MaxLines == 3

(***************************************************************************)
(* Characters and strings.                                                 *)
(***************************************************************************)
Digits == <<"0", "1", "2", "3", "4", "5", "6", "7", "8", "9">>

IsDigit(c) == \E i \in 1..10 : Digits[i] = c

DigitVal(c) == (CHOOSE i \in 1..10 : Digits[i] = c) - 1

\* unicode.IsSpace restricted to the characters the generated lines use
IsSpace(c) == c \in {" ", "\t", "\n", "\r"}

Drop(s, n) == SubSeq(s, n + 1, Len(s))

Take(s, n) == SubSeq(s, 1, n)

RECURSIVE TrimLeft(_)
TrimLeft(s) ==
    IF s # <<>> /\ IsSpace(Head(s)) THEN TrimLeft(Tail(s)) ELSE s

RECURSIVE TrimRight(_)
TrimRight(s) ==
    IF s # <<>> /\ IsSpace(s[Len(s)]) THEN TrimRight(Take(s, Len(s) - 1)) ELSE s

\* strings.TrimSpace
TrimSpace(s) == TrimRight(TrimLeft(s))

\* strconv.Atoi on a digit group (the groups of the model stay far below 2^63)
RECURSIVE AtoiFrom(_, _)
AtoiFrom(s, acc) ==
    IF s = <<>> THEN acc ELSE AtoiFrom(Tail(s), acc * 10 + DigitVal(Head(s)))

Atoi(s) == AtoiFrom(s, 0)

\* the decimal text of a non-negative integer, as a client writes it
RECURSIVE Itoa(_)
Itoa(n) ==
    IF n < 10 THEN <<Digits[n + 1]>> ELSE Itoa(n \div 10) \o <<Digits[(n % 10) + 1]>>

Spaces(n) == [i \in 1..n |-> " "]

(***************************************************************************)
(* regexp.Find: the leftmost match of the pattern anywhere in s.           *)
(***************************************************************************)
NoMatch == [found |-> FALSE, at |-> 0, m |-> <<>>]

\* length of the maximal run of digits at the start of s
RECURSIVE DigitRun(_)
DigitRun(s) ==
    IF s # <<>> /\ IsDigit(Head(s)) THEN 1 + DigitRun(Tail(s)) ELSE 0

ActionWords == {<<"A", "D", "D">>, <<"D", "E", "L">>, <<"K", "N", "N">>, <<"E", "N", "D">>}

\* length of the match of ADD|DEL|KNN|END at the start of s, 0 if none
ActionAt(s) == IF Len(s) >= 3 /\ Take(s, 3) \in ActionWords THEN 3 ELSE 0

\* {[0-9]+, [0-9]+} at the start of s, once "{" and d1 digits are known: the
\* length of the match, 0 if none
PointRest(s, d1) ==
    IF d1 = 0 \/ Len(s) < d1 + 3 \/ s[d1 + 2] # "," \/ s[d1 + 3] # " " THEN 0
    ELSE IF DigitRun(Drop(s, d1 + 3)) = 0 THEN 0
    ELSE IF Len(s) < d1 + 4 + DigitRun(Drop(s, d1 + 3)) THEN 0
    ELSE IF s[d1 + 4 + DigitRun(Drop(s, d1 + 3))] # "}" THEN 0
    ELSE d1 + 4 + DigitRun(Drop(s, d1 + 3))

\* length of the match of {[0-9]+, [0-9]+} at the start of s, 0 if none
PointAt(s) ==
    IF s = <<>> \/ Head(s) # "{" THEN 0 ELSE PointRest(s, DigitRun(Tail(s)))

\* length of the match of [0-9]+ at the start of s, 0 if none
DataAt(s) == DigitRun(s)

TokAction == "ADD|DEL|KNN|END"
TokPoint == "{[0-9]+, [0-9]+}"
TokData == "[0-9]+"

MatchAt(token, s) ==
    CASE token = TokAction -> ActionAt(s)
      [] token = TokPoint -> PointAt(s)
      [] token = TokData -> DataAt(s)

Found(s, off, n) == [found |-> TRUE, at |-> off, m |-> SubSeq(s, off + 1, off + n)]

\* re.Find([]byte(s)): scan the start offsets left to right
RECURSIVE FindFrom(_, _, _)
FindFrom(token, s, off) ==
    IF off > Len(s) THEN NoMatch
    ELSE IF MatchAt(token, Drop(s, off)) > 0
    THEN Found(s, off, MatchAt(token, Drop(s, off)))
    ELSE FindFrom(token, s, off + 1)

Find(token, s) == FindFrom(token, s, 0)

\* re.FindAllString(p, -1) for [0-9]+: the successive digit groups of p
RECURSIVE FindAllDigits(_)
AllDigitsAfter(p, f) ==
    IF ~f.found THEN <<>> ELSE <<f.m>> \o FindAllDigits(Drop(p, f.at + Len(f.m)))

FindAllDigits(p) == AllDigitsAfter(p, Find(TokData, p))

(***************************************************************************)
(* Expr and the matcher.                                                   *)
(***************************************************************************)
\* var expr Expr; expr.buffer = command; expr.valid = false
NewExpr(command) ==
    [buffer |-> command, position |-> 0, action |-> <<>>, point |-> <<>>,
     data |-> 0, valid |-> FALSE]

Current(expr) == Drop(expr.buffer, expr.position)

\* for x := range buffer[position:] { if string(x) != " " { break }; position += 1 }
\* x is the index of the character, and string(x) the text of code point x
RECURSIVE SkipLoop(_, _, _)
SkipLoop(pos, x, n) ==
    IF x >= n THEN pos
    ELSE IF x # 32 THEN pos
    ELSE SkipLoop(pos + 1, x + 1, n)

SkipWhitespace(expr) ==
    [expr EXCEPT !.position = SkipLoop(expr.position, 0, Len(Current(expr)))]

\* the cursor moved by the length of the match and over the separator after it
AdvancePastSeparator(pos, f) == pos + Len(f.m) + 1

\* position += len(m): the cursor moves by the length of the match
Advance(pos, f) == pos + Len(f.m)

\* m := re.Find([]byte(expr.Current())); if m != nil { ... return string(m), true }
MatchResult(e, f) ==
    IF f.found
    THEN [expr |-> [e EXCEPT !.position = Advance(e.position, f)],
          token |-> f.m, status |-> TRUE]
    ELSE [expr |-> e, token |-> <<>>, status |-> FALSE]

MatchSkipped(e, token) == MatchResult(e, Find(token, Current(e)))

Match(expr, token) == MatchSkipped(SkipWhitespace(expr), token)

PointOf(rst) == <<Atoi(rst[1]), Atoi(rst[2])>>

\* MakePoint with the two coordinates taken in the wrong order
MakePointSwapped(p) == <<PointOf(FindAllDigits(p))[2], PointOf(FindAllDigits(p))[1]>>

MakePoint(p) == PointOf(FindAllDigits(p))

Reset(expr) == [expr EXCEPT !.position = 0]

Failed(expr) == [expr |-> Reset(expr), ok |-> FALSE]

\* if token, status := Match(...); status { expr.action = token; return true }
\* expr.position = 0; return false
ActionResult(r) ==
    IF r.status
    THEN [expr |-> [r.expr EXCEPT !.action = r.token], ok |-> TRUE]
    ELSE Failed(r.expr)

IsAction(expr) == ActionResult(Match(expr, TokAction))

PointResult(r) ==
    IF r.status
    THEN [expr |-> [r.expr EXCEPT !.point = MakePoint(r.token)], ok |-> TRUE]
    ELSE Failed(r.expr)

IsPoint(expr) == PointResult(Match(expr, TokPoint))

DataResult(r) ==
    IF r.status
    THEN [expr |-> [r.expr EXCEPT !.data = Atoi(r.token)], ok |-> TRUE]
    ELSE Failed(r.expr)

IsData(expr) == DataResult(Match(expr, TokData))

\* the same test with no reset of the cursor on the way out
OnlyIfActionNoReset(rst, kw) ==
    IF rst.expr.action = kw THEN rst ELSE [expr |-> rst.expr, ok |-> FALSE]

\* if expr.action == kw { return rst }; expr.position = 0; return false
OnlyIfAction(rst, kw) == IF rst.expr.action = kw THEN rst ELSE Failed(rst.expr)

IsEndAction(expr) == OnlyIfAction(IsAction(expr), <<"E", "N", "D">>)

\* a && IsPoint(expr): IsPoint runs on the Expr a left, and only if a succeeded
AndIsPoint(a) == IF a.ok THEN IsPoint(a.expr) ELSE a

\* a && IsData(expr)
AndIsData(a) == IF a.ok THEN IsData(a.expr) ELSE a

IsCommand(expr) == AndIsData(AndIsPoint(IsAction(expr)))

IsAddCommand(expr) == OnlyIfAction(IsCommand(expr), <<"A", "D", "D">>)

IsKnnCommand(expr) == OnlyIfAction(IsCommand(expr), <<"K", "N", "N">>)

IsPartialCommand(expr) == AndIsPoint(IsAction(expr))

IsDelCommand(expr) == OnlyIfAction(IsPartialCommand(expr), <<"D", "E", "L">>)

\* a || IsKnnCommand(expr): runs on the Expr a left, and only if a failed
OrIsKnnCommand(a) == IF a.ok THEN a ELSE IsKnnCommand(a.expr)

IsFullCommand(expr) == OrIsKnnCommand(IsAddCommand(expr))

\* a || IsDelCommand(&expr)
OrIsDelCommand(a) == IF a.ok THEN a ELSE IsDelCommand(a.expr)

\* a || IsEndAction(&expr)
OrIsEndAction(a) == IF a.ok THEN a ELSE IsEndAction(a.expr)

\* a command is valid only if its tokens took the whole line
ReturnedAtEnd(r) ==
    [r.expr EXCEPT !.valid = r.ok /\ r.expr.position = Len(r.expr.buffer)]

\* if valid { expr.valid = true }; return expr
Returned(r) == [r.expr EXCEPT !.valid = r.ok]

ParseKDtreeCommand(command) ==
    Returned(OrIsEndAction(OrIsDelCommand(IsFullCommand(NewExpr(TrimSpace(command))))))

(***************************************************************************)
(* State.                                                                  *)
(***************************************************************************)
VARIABLES
    \* one parse, step by step
    pin,        \* how the input line was put together
    pline,      \* the line handed to ParseKDtreeCommand
    pexpr,      \* the Expr of ParseKDtreeCommand
    ppc,        \* the place in ParseKDtreeCommand
    pok,        \* what the alternative tried last returned
    \* the server: one HandleRequest per accepted connection
    pc,         \* where each session is in HandleRequest
    parsed,     \* each session's parsed command
    nread,      \* lines each session has read from its connection
    nadd,       \* ADD lines among them, counted for the sessions of part_000
    broken,     \* the connection is at EOF or reset: every read on it fails
    failed,     \* a read of the session has failed
    greeted,    \* the greeting was written to the connection
    last,       \* the response written last to the connection
    mutex,      \* the session holding store.Mutex, 0 when it is free
    tree,       \* the records of the shared kd-tree, a bag
    snap,       \* the tree as the running Insert, Remove or KNN of a session read it
    serverUp,   \* the server process is running
    \* the store operations of each session, by the number of the line they serve
    opBegun,    \* the line of the operation the session started last, 0 for none
    opDone,     \* the line of the operation the session finished last, 0 for none
    \* the connection of each session, as the kernel holds it
    rcv,        \* lines that arrived on the socket and were not read yet
    nsent,      \* lines the client has sent on the connection
    \* IsCommand, one Match at a time
    mexpr,      \* the Expr the matchers work on
    mfrom,      \* the cursor when the running Match was called
    malt,       \* the alternative running: 1 Add, 2 Knn, 3 Del, 4 End
    mstage,     \* the matcher running: 1 IsAction, 2 IsPoint, 3 IsData
    mphase,     \* the place in the matcher
    mtoken      \* the text the Match returned last

pvars == <<pin, pline, pexpr, ppc, pok>>

gvars == <<opBegun, opDone>>

cvars == <<rcv, nsent>>

mvars == <<mexpr, mfrom, malt, mstage, mphase, mtoken>>

svars == <<pc, parsed, nread, nadd, broken, failed, greeted, last, mutex, tree, snap,
           serverUp, cvars, gvars>>

vars == <<pvars, svars, mvars>>

Sessions == 1..NumSessions

(***************************************************************************)
(* The lines a parse is run on.                                            *)
(***************************************************************************)
ADD == <<"A", "D", "D">>
DEL == <<"D", "E", "L">>
KNN == <<"K", "N", "N">>
END == <<"E", "N", "D">>

PointText(x, y) == <<"{">> \o Itoa(x) \o <<",", " ">> \o Itoa(y) \o <<"}">>

PointForm(form, x, y) ==
    CASE form = "good" -> PointText(x, y)
      [] form = "nospace" -> <<"{">> \o Itoa(x) \o <<",">> \o Itoa(y) \o <<"}">>
      [] form = "open" -> <<"{">> \o Itoa(x) \o <<",", " ">> \o Itoa(y)
      [] form = "none" -> <<>>

Line(in) ==
    in.lead \o in.kw \o Spaces(in.sp1) \o PointForm(in.form, in.x, in.y)
        \o Spaces(in.sp2) \o (IF in.hasn THEN Itoa(in.n) ELSE <<>>) \o in.tail

Input(lead, kw, sp1, form, x, y, sp2, hasn, n, tail) ==
    [lead |-> lead, kw |-> kw, sp1 |-> sp1, form |-> form, x |-> x, y |-> y,
     sp2 |-> sp2, hasn |-> hasn, n |-> n, tail |-> tail]

\* the four shapes of the protocol, tokens one space apart, ended by a newline
CanonInputs ==
    {Input(<<>>, kw, 1, "good", x, y, 1, TRUE, n, <<"\n">>) :
        kw \in {ADD, KNN}, x \in 0..MaxNum, y \in 0..MaxNum, n \in 0..MaxNum}
    \cup {Input(<<>>, DEL, 1, "good", x, y, 0, FALSE, 0, <<"\n">>) :
        x \in 0..MaxNum, y \in 0..MaxNum}
    \cup {Input(<<>>, END, 0, "none", 0, 0, 0, FALSE, 0, <<"\n">>)}

\* text after the last token of a line: a word, and a keyword with a digit group
ExtraTails == {<<" ", "x", "\n">>, <<" ", "D", "E", "L", " ", "7", "\n">>}

\* the same pieces with other spacing, missing or malformed pieces, and text around
LooseInputs ==
    {Input(lead, kw, sp1, pt[1], pt[2], pt[3], sp2, d[1], d[2], tail) :
        lead \in {<<>>, <<"x">>, <<" ">>},
        kw \in {ADD, KNN, DEL, END, <<"A", "D">>},
        sp1 \in 0..MaxSpaces,
        pt \in {<<"good", 1, 2>>, <<"good", MaxNum, 3>>, <<"nospace", 3, 4>>,
                <<"open", 3, 4>>, <<"none", 0, 0>>},
        sp2 \in 0..MaxSpaces,
        d \in {<<FALSE, 0>>, <<TRUE, 5>>, <<TRUE, MaxNum>>},
        tail \in {<<"\n">>, <<"\r", "\n">>} \cup ExtraTails}

Inputs == CanonInputs \cup LooseInputs

(***************************************************************************)
(* ParseKDtreeCommand, one alternative at a time.                          *)
(***************************************************************************)
\* main, before the first Accept: an empty tree, no session
InitServer ==
    /\ pc = [s \in Sessions |-> "idle"]
    /\ parsed = [s \in Sessions |-> NewExpr(<<>>)]
    /\ nread = [s \in Sessions |-> 0]
    /\ nadd = [s \in Sessions |-> 0]
    /\ broken = [s \in Sessions |-> FALSE]
    /\ failed = [s \in Sessions |-> FALSE]
    /\ greeted = [s \in Sessions |-> FALSE]
    /\ last = [s \in Sessions |-> [text |-> "", point |-> <<>>, n |-> 0]]
    /\ mutex = 0
    /\ tree = EmptyBag
    /\ snap = [s \in Sessions |-> EmptyBag]
    /\ serverUp = TRUE
    /\ opBegun = [s \in Sessions |-> 0]
    /\ opDone = [s \in Sessions |-> 0]
    /\ rcv = [s \in Sessions |-> <<>>]
    /\ nsent = [s \in Sessions |-> 0]

\* no matcher is being followed
MatchOff ==
    /\ mexpr = NewExpr(<<>>)
    /\ mfrom = 0
    /\ malt = 0
    /\ mstage = 0
    /\ mphase = "off"
    /\ mtoken = <<>>

InitParse ==
    /\ pin \in Inputs
    /\ pline = Line(pin)
    /\ pexpr = NewExpr(<<>>)
    /\ ppc = "start"
    /\ pok = FALSE
    /\ InitServer
    /\ MatchOff

\* command = strings.TrimSpace(command); expr.buffer = command; expr.valid = false
PStart ==
    /\ ppc = "start"
    /\ pexpr' = NewExpr(TrimSpace(pline))
    /\ ppc' = "add"
    /\ UNCHANGED <<pin, pline, pok, svars, mvars>>

\* IsFullCommand(&expr), left operand of its ||
PIsAddCommand ==
    /\ ppc = "add"
    /\ LET r == IsAddCommand(pexpr)
       IN  /\ pexpr' = r.expr
           /\ pok' = r.ok
           /\ ppc' = IF r.ok THEN "return" ELSE "knn"
    /\ UNCHANGED <<pin, pline, svars, mvars>>

\* IsFullCommand(&expr), right operand of its ||
PIsKnnCommand ==
    /\ ppc = "knn"
    /\ LET r == IsKnnCommand(pexpr)
       IN  /\ pexpr' = r.expr
           /\ pok' = r.ok
           /\ ppc' = IF r.ok THEN "return" ELSE "del"
    /\ UNCHANGED <<pin, pline, svars, mvars>>

PIsDelCommand ==
    /\ ppc = "del"
    /\ LET r == IsDelCommand(pexpr)
       IN  /\ pexpr' = r.expr
           /\ pok' = r.ok
           /\ ppc' = IF r.ok THEN "return" ELSE "end"
    /\ UNCHANGED <<pin, pline, svars, mvars>>

PIsEndAction ==
    /\ ppc = "end"
    /\ LET r == IsEndAction(pexpr)
       IN  /\ pexpr' = r.expr
           /\ pok' = r.ok
           /\ ppc' = "return"
    /\ UNCHANGED <<pin, pline, svars, mvars>>

\* if valid { expr.valid = true }; return expr
PReturn ==
    /\ ppc = "return"
    /\ pexpr' = Returned([expr |-> pexpr, ok |-> pok])
    /\ ppc' = "done"
    /\ UNCHANGED <<pin, pline, pok, svars, mvars>>

NextParse ==
    \/ PStart
    \/ PIsAddCommand
    \/ PIsKnnCommand
    \/ PIsDelCommand
    \/ PIsEndAction
    \/ PReturn

SpecParse == InitParse /\ [][NextParse]_vars

(***************************************************************************)
(* ParseKDtreeCommand, one Match at a time: the alternatives in the order  *)
(* of the || chain, the matchers of an alternative in the order of its &&  *)
(* chain, and inside a matcher SkipWhitespace, re.Find and the assignment  *)
(* or the reset.                                                           *)
(***************************************************************************)
\* the alternatives: 1 IsAddCommand, 2 IsKnnCommand, 3 IsDelCommand, 4 IsEndAction
AltKeyword(alt) ==
    CASE alt = 1 -> ADD
      [] alt = 2 -> KNN
      [] alt = 3 -> DEL
      [] alt = 4 -> END

\* matchers the alternative runs: IsCommand three, IsPartialCommand two, IsAction one
AltStages(alt) ==
    CASE alt \in {1, 2} -> 3
      [] alt = 3 -> 2
      [] alt = 4 -> 1

StageToken(stage) ==
    CASE stage = 1 -> TokAction
      [] stage = 2 -> TokPoint
      [] stage = 3 -> TokData

\* what the matcher does with the result of its Match
StageResult(stage, r) ==
    CASE stage = 1 -> ActionResult(r)
      [] stage = 2 -> PointResult(r)
      [] stage = 3 -> DataResult(r)

PhaseAfter(r) == IF r.status THEN "matched" ELSE "nomatch"

InitMatch ==
    /\ pin \in Inputs
    /\ pline = Line(pin)
    /\ pexpr = NewExpr(<<>>)
    /\ ppc = "off"
    /\ pok = FALSE
    /\ InitServer
    /\ mexpr = NewExpr(TrimSpace(pline))
    /\ mfrom = 0
    /\ malt = 1
    /\ mstage = 1
    /\ mphase = "call"
    /\ mtoken = <<>>

\* Match: expr.SkipWhitespace()
MSkipWhitespace ==
    /\ mphase = "call"
    /\ mfrom' = mexpr.position
    /\ mexpr' = SkipWhitespace(mexpr)
    /\ mphase' = "skipped"
    /\ UNCHANGED <<malt, mstage, mtoken, pvars, svars>>

\* Match: m := re.Find(...); if m != nil { expr.position += len(m); return string(m), true }
MFind ==
    /\ mphase = "skipped"
    /\ mexpr' = MatchSkipped(mexpr, StageToken(mstage)).expr
    /\ mtoken' = MatchSkipped(mexpr, StageToken(mstage)).token
    /\ mphase' = PhaseAfter(MatchSkipped(mexpr, StageToken(mstage)))
    /\ UNCHANGED <<mfrom, malt, mstage, pvars, svars>>

\* the matcher after a Match that succeeded: expr.action, expr.point or
\* expr.data is set, return true; the && chain goes on to its next matcher
MSet ==
    /\ mphase = "matched"
    /\ mexpr' = StageResult(mstage, [expr |-> mexpr, token |-> mtoken, status |-> TRUE]).expr
    /\ IF mstage < AltStages(malt)
       THEN mstage' = mstage + 1 /\ mphase' = "call"
       ELSE mstage' = mstage /\ mphase' = "tokens"
    /\ UNCHANGED <<mfrom, malt, mtoken, pvars, svars>>

\* the matcher after a Match that failed: expr.position = 0; return false
MReset ==
    /\ mphase = "nomatch"
    /\ mexpr' = StageResult(mstage, [expr |-> mexpr, token |-> mtoken, status |-> FALSE]).expr
    /\ mphase' = "failed"
    /\ UNCHANGED <<mfrom, malt, mstage, mtoken, pvars, svars>>

AltPhase(r) == IF r.ok THEN "accepted" ELSE "failed"

\* the alternative after all its matchers succeeded:
\* if expr.action == kw { return rst }; expr.position = 0; return false
MOnlyIfAction ==
    /\ mphase = "tokens"
    /\ mexpr' = OnlyIfAction([expr |-> mexpr, ok |-> TRUE], AltKeyword(malt)).expr
    /\ mphase' = AltPhase(OnlyIfAction([expr |-> mexpr, ok |-> TRUE], AltKeyword(malt)))
    /\ UNCHANGED <<mfrom, malt, mstage, mtoken, pvars, svars>>

\* the || chain after an alternative returned false: the next alternative
MNext ==
    /\ mphase = "failed" /\ malt < 4
    /\ malt' = malt + 1
    /\ mstage' = 1
    /\ mphase' = "call"
    /\ UNCHANGED <<mexpr, mfrom, mtoken, pvars, svars>>

\* if valid { expr.valid = true }; return expr
MReturn ==
    /\ mphase = "accepted" \/ (mphase = "failed" /\ malt = 4)
    /\ mexpr' = Returned([expr |-> mexpr, ok |-> mphase = "accepted"])
    /\ mphase' = "returned"
    /\ UNCHANGED <<mfrom, malt, mstage, mtoken, pvars, svars>>

NextMatch ==
    \/ MSkipWhitespace
    \/ MFind
    \/ MSet
    \/ MReset
    \/ MOnlyIfAction
    \/ MNext
    \/ MReturn

SpecMatch == InitMatch /\ [][NextMatch]_vars

(***************************************************************************)
(* The store: github.com/kyroy/kdtree, seen as the bag of its records.     *)
(***************************************************************************)
Record(point, data) == [point |-> point, data |-> data]

\* tree.Insert(points.NewPoint(point, data)): one more record
TreeInsert(t, r) == t (+) SetToBag({r})

\* tree.Remove(&points.Point{Coordinates: p}): the records at p are gone
TreeRemove(t, p) ==
    LET keep == {r \in BagToSet(t) : r.point # p}
    IN  [r \in keep |-> t[r]]

\* tree.KNN(p, k): up to k records, none for k <= 0; the number returned
TreeKNNCount(t, k) ==
    IF k <= 0 THEN 0
    ELSE IF BagCardinality(t) < k THEN BagCardinality(t) ELSE k

(***************************************************************************)
(* The clients and the responses.                                          *)
(***************************************************************************)
\* what ReadString('\n') may return as line k + 1 of session s
ClientLines(s, k) ==
    { ADD \o <<" ">> \o PointText(1, 0) \o <<" ", "7", "\n">>,
      DEL \o <<" ">> \o PointText(1, 0) \o <<"\n">>,
      KNN \o <<" ">> \o PointText(1, 0) \o <<" ", "1", "\n">>,
      END \o <<"\n">>,
      <<"F", "O", "O", "\n">> }

\* a response: its text, the point it echoes, the number of records it lists
Response(text, point, n) == [text |-> text, point |-> point, n |-> n]

Greeting == Response("Connected to kdtreed...", <<>>, 0)
ReadError == Response("READ ERROR", <<>>, 0)
InvalidCommand == Response("INVALID COMMAND", <<>>, 0)
Bye == Response("BYE!!!", <<>>, 0)
Added(point) == Response("added", point, 0)
Deleted(point) == Response("deleted", point, 0)
Neighbours(n) == Response("", <<>>, n)

RECURSIVE SumUpTo(_, _)
SumUpTo(f, n) == IF n = 0 THEN 0 ELSE f[n] + SumUpTo(f, n - 1)

\* lines read so far, over all the connections
TotalRead == SumUpTo(nread, NumSessions)

\* the accept loop takes the connections in the order they arrive
NextToAccept(s) == pc[s] = "idle" /\ \A t \in Sessions : t < s => pc[t] # "idle"

(***************************************************************************)
(* src/daemon.go: main's accept loop and HandleRequest.                    *)
(***************************************************************************)
\* request, err := listener.Accept(); go HandleRequest(request, &store)
Accept(s) ==
    /\ serverUp /\ NextToAccept(s)
    /\ pc' = [pc EXCEPT ![s] = "greet"]
    /\ UNCHANGED <<parsed, nread, nadd, broken, failed, greeted, last, mutex, tree,
                   snap, serverUp, pvars, mvars, cvars, gvars>>

\* connection.Write([]byte("Connected to kdtreed...\r\n"))
Greet(s) ==
    /\ serverUp /\ pc[s] = "greet"
    /\ last' = [last EXCEPT ![s] = Greeting]
    /\ greeted' = [greeted EXCEPT ![s] = TRUE]
    /\ pc' = [pc EXCEPT ![s] = "read"]
    /\ UNCHANGED <<parsed, nread, nadd, broken, failed, mutex, tree, snap, serverUp,
                   pvars, mvars, cvars, gvars>>

\* data, err := bufio.NewReader(connection).ReadString('\n') with err == nil,
\* then parsed := ParseKDtreeCommand(data); the client sends its next line
\* after the response to this one, so a read finds one line
ReadLine(s) ==
    /\ serverUp /\ pc[s] = "read"
    /\ ~broken[s] /\ TotalRead < MaxLines
    /\ \E data \in ClientLines(s, nread[s]) :
          parsed' = [parsed EXCEPT ![s] = ParseKDtreeCommand(data)]
    /\ nread' = [nread EXCEPT ![s] = @ + 1]
    /\ pc' = [pc EXCEPT ![s] = "check"]
    /\ UNCHANGED <<nadd, broken, failed, greeted, last, mutex, tree, snap, serverUp,
                   pvars, mvars, cvars, gvars>>

\* the same read with err != nil: the client closed or reset the connection
ReadFail(s) ==
    /\ serverUp /\ pc[s] = "read"
    /\ broken' = [broken EXCEPT ![s] = TRUE]
    /\ failed' = [failed EXCEPT ![s] = TRUE]
    /\ pc' = [pc EXCEPT ![s] = "readerr"]
    /\ UNCHANGED <<parsed, nread, nadd, greeted, last, mutex, tree, snap, serverUp,
                   pvars, mvars, cvars, gvars>>

\* if err != nil { connection.Write([]byte("READ ERROR\r\n")); continue }
ReadErrorReply(s) ==
    /\ serverUp /\ pc[s] = "readerr"
    /\ last' = [last EXCEPT ![s] = ReadError]
    /\ pc' = [pc EXCEPT ![s] = "read"]
    /\ UNCHANGED <<parsed, nread, nadd, broken, failed, greeted, mutex, tree, snap,
                   serverUp, pvars, mvars, cvars, gvars>>

\* the case of the switch a valid command other than END goes to
Dispatch(action) ==
    CASE action = ADD -> "add_lock"
      [] action = DEL -> "del_lock"
      [] action = KNN -> "knn"
      [] OTHER -> "read"

\* Check that leaves the loop on an invalid line, as part_000 does
CheckBreaksOnInvalid(s) ==
    /\ serverUp /\ pc[s] = "check"
    /\ IF ~parsed[s].valid
       THEN /\ pc' = [pc EXCEPT ![s] = "close"]
            /\ UNCHANGED last
       ELSE IF parsed[s].action = END
       THEN /\ last' = [last EXCEPT ![s] = Bye]
            /\ pc' = [pc EXCEPT ![s] = "close"]
       ELSE /\ pc' = [pc EXCEPT ![s] = Dispatch(parsed[s].action)]
            /\ UNCHANGED last
    /\ UNCHANGED <<parsed, nread, nadd, broken, failed, greeted, mutex, tree, snap,
                   serverUp, pvars, mvars, cvars, gvars>>

\* Check that goes round the loop after the farewell, a continue for the break
CheckEndContinues(s) ==
    /\ serverUp /\ pc[s] = "check"
    /\ IF ~parsed[s].valid
       THEN /\ last' = [last EXCEPT ![s] = InvalidCommand]
            /\ pc' = [pc EXCEPT ![s] = "read"]
       ELSE IF parsed[s].action = END
       THEN /\ last' = [last EXCEPT ![s] = Bye]
            /\ pc' = [pc EXCEPT ![s] = "read"]
       ELSE /\ pc' = [pc EXCEPT ![s] = Dispatch(parsed[s].action)]
            /\ UNCHANGED last
    /\ UNCHANGED <<parsed, nread, nadd, broken, failed, greeted, mutex, tree, snap,
                   serverUp, pvars, mvars, cvars, gvars>>

\* if !parsed.valid { Write INVALID COMMAND; continue }
\* if parsed.valid && parsed.action == "END" { Write BYE!!!; break }
\* switch parsed.action
Check(s) ==
    /\ serverUp /\ pc[s] = "check"
    /\ IF ~parsed[s].valid
       THEN /\ last' = [last EXCEPT ![s] = InvalidCommand]
            /\ pc' = [pc EXCEPT ![s] = "read"]
       ELSE IF parsed[s].action = END
       THEN /\ last' = [last EXCEPT ![s] = Bye]
            /\ pc' = [pc EXCEPT ![s] = "close"]
       ELSE /\ pc' = [pc EXCEPT ![s] = Dispatch(parsed[s].action)]
            /\ UNCHANGED last
    /\ UNCHANGED <<parsed, nread, nadd, broken, failed, greeted, mutex, tree, snap,
                   serverUp, pvars, mvars, cvars, gvars>>

\* store.Lock() that does not wait for the mutex to be free
LockNoWait(s, here, next) ==
    /\ serverUp /\ pc[s] = here
    /\ mutex' = s
    /\ pc' = [pc EXCEPT ![s] = next]
    /\ UNCHANGED <<parsed, nread, nadd, broken, failed, greeted, last, tree, snap,
                   serverUp, pvars, mvars, cvars, gvars>>

\* store.Lock()
Lock(s, here, next) ==
    /\ serverUp /\ pc[s] = here
    /\ mutex = 0
    /\ mutex' = s
    /\ pc' = [pc EXCEPT ![s] = next]
    /\ UNCHANGED <<parsed, nread, nadd, broken, failed, greeted, last, tree, snap,
                   serverUp, pvars, mvars, cvars, gvars>>

\* the session goes on without store.Unlock()
UnlockForgotten(s, here, next) ==
    /\ serverUp /\ pc[s] = here
    /\ pc' = [pc EXCEPT ![s] = next]
    /\ UNCHANGED <<parsed, nread, nadd, broken, failed, greeted, last, mutex, tree,
                   snap, serverUp, pvars, mvars, cvars, gvars>>

\* store.Unlock()
Unlock(s, here, next) ==
    /\ serverUp /\ pc[s] = here
    /\ mutex' = 0
    /\ pc' = [pc EXCEPT ![s] = next]
    /\ UNCHANGED <<parsed, nread, nadd, broken, failed, greeted, last, tree, snap,
                   serverUp, pvars, mvars, cvars, gvars>>

\* a tree operation started in a goroutine of its own: the loop goes round
\* while the operation runs
TreeOpBeginDetached(s, here, next) ==
    /\ serverUp /\ pc[s] = here
    /\ snap' = [snap EXCEPT ![s] = tree]
    /\ opBegun' = [opBegun EXCEPT ![s] = nread[s]]
    /\ pc' = [pc EXCEPT ![s] = "read"]
    /\ UNCHANGED <<parsed, nread, nadd, broken, failed, greeted, last, mutex, tree,
                   serverUp, opDone, pvars, mvars, cvars>>

\* a tree operation starts: it reads the tree; the operation serves the line
\* the session read last
TreeOpBegin(s, here, next) ==
    /\ serverUp /\ pc[s] = here
    /\ snap' = [snap EXCEPT ![s] = tree]
    /\ opBegun' = [opBegun EXCEPT ![s] = nread[s]]
    /\ pc' = [pc EXCEPT ![s] = next]
    /\ UNCHANGED <<parsed, nread, nadd, broken, failed, greeted, last, mutex, tree,
                   serverUp, opDone, pvars, mvars, cvars>>

\* a mutation ends: it writes the tree it read, updated
TreeOpEnd(s, here, next, t) ==
    /\ serverUp /\ pc[s] = here
    /\ tree' = t
    /\ snap' = [snap EXCEPT ![s] = EmptyBag]
    /\ opDone' = [opDone EXCEPT ![s] = opBegun[s]]
    /\ pc' = [pc EXCEPT ![s] = next]
    /\ UNCHANGED <<parsed, nread, nadd, broken, failed, greeted, last, mutex,
                   serverUp, opBegun, pvars, mvars, cvars>>

\* connection.Write of the response to a command, after the operation of the
\* command has returned; the loop goes round
Reply(s, here, text) ==
    /\ serverUp /\ pc[s] = here
    /\ last' = [last EXCEPT ![s] = text]
    /\ parsed' = [parsed EXCEPT ![s] = NewExpr(<<>>)]
    /\ snap' = [snap EXCEPT ![s] = EmptyBag]
    /\ opDone' = [opDone EXCEPT ![s] = opBegun[s]]
    /\ pc' = [pc EXCEPT ![s] = "read"]
    /\ UNCHANGED <<nread, nadd, broken, failed, greeted, mutex, tree, serverUp,
                   opBegun, pvars, mvars, cvars>>

\* case "ADD"
AddLock(s) == Lock(s, "add_lock", "add_insert")

AddInsertBegin(s) == TreeOpBegin(s, "add_insert", "add_insert2")

AddInsertEnd(s) ==
    TreeOpEnd(s, "add_insert2", "add_unlock",
              TreeInsert(snap[s], Record(parsed[s].point, parsed[s].data)))

AddUnlock(s) == Unlock(s, "add_unlock", "add_reply")

AddReply(s) == Reply(s, "add_reply", Added(parsed[s].point))

\* case "DEL"
DelLock(s) == Lock(s, "del_lock", "del_remove")

DelRemoveBegin(s) == TreeOpBegin(s, "del_remove", "del_remove2")

DelRemoveEnd(s) ==
    TreeOpEnd(s, "del_remove2", "del_unlock", TreeRemove(snap[s], parsed[s].point))

DelUnlock(s) == Unlock(s, "del_unlock", "del_reply")

DelReply(s) == Reply(s, "del_reply", Deleted(parsed[s].point))

\* case "KNN"
KnnBegin(s) == TreeOpBegin(s, "knn", "knn2")

KnnEndReply(s) ==
    Reply(s, "knn2", Neighbours(TreeKNNCount(snap[s], parsed[s].data)))

\* connection.Close()
Close(s) ==
    /\ serverUp /\ pc[s] = "close"
    /\ pc' = [pc EXCEPT ![s] = "closed"]
    /\ UNCHANGED <<parsed, nread, nadd, broken, failed, greeted, last, mutex, tree,
                   snap, serverUp, pvars, mvars, cvars, gvars>>

\* the steps of a session on its connection and its own control flow
StepIO(s) ==
    \/ Greet(s)
    \/ ReadFail(s)
    \/ ReadErrorReply(s)
    \/ Check(s)
    \/ AddReply(s)
    \/ DelReply(s)
    \/ KnnEndReply(s)
    \/ Close(s)
    \/ ReadLine(s)

\* the steps of a session on the store
StepStore(s) ==
    \/ AddLock(s)
    \/ AddInsertBegin(s)
    \/ AddInsertEnd(s)
    \/ AddUnlock(s)
    \/ DelLock(s)
    \/ DelRemoveBegin(s)
    \/ DelRemoveEnd(s)
    \/ DelUnlock(s)
    \/ KnnBegin(s)

Step(s) == StepIO(s) \/ StepStore(s)

Init ==
    /\ InitServer
    /\ pin = Input(<<>>, <<>>, 0, "none", 0, 0, 0, FALSE, 0, <<>>)
    /\ pline = <<>>
    /\ pexpr = NewExpr(<<>>)
    /\ ppc = "off"
    /\ pok = FALSE
    /\ MatchOff

Next == \E s \in Sessions : Accept(s) \/ Step(s)

Spec == Init /\ [][Next]_vars

\* every goroutine that can take a step is scheduled again
FairSpec == Spec /\ \A s \in Sessions : WF_vars(StepIO(s)) /\ WF_vars(StepStore(s))

(***************************************************************************)
(* src/daemon.go with clients that do not wait for the response before     *)
(* they send their next line: the lines that have arrived wait in the      *)
(* socket, and a read takes all of them.                                   *)
(***************************************************************************)
\* lines sent so far, over all the connections
TotalSent == SumUpTo(nsent, NumSessions)

\* the client of an accepted connection writes its next line; it arrives
Send(s) ==
    /\ serverUp /\ pc[s] # "idle"
    /\ TotalSent < MaxLines
    /\ \E data \in ClientLines(s, nsent[s]) :
          rcv' = [rcv EXCEPT ![s] = Append(@, data)]
    /\ nsent' = [nsent EXCEPT ![s] = @ + 1]
    /\ UNCHANGED <<pc, parsed, nread, nadd, broken, failed, greeted, last, mutex, tree,
                   snap, serverUp, pvars, mvars, gvars>>

\* data, err := bufio.NewReader(connection).ReadString('\n') with err == nil:
\* the Reader made for this read fills its buffer with all that has arrived,
\* ReadString returns the first line, and the Reader, with the lines left in
\* its buffer, is dropped; then parsed := ParseKDtreeCommand(data)
ReadBatch(s) ==
    /\ serverUp /\ pc[s] = "read"
    /\ rcv[s] # <<>>
    /\ parsed' = [parsed EXCEPT ![s] = ParseKDtreeCommand(Head(rcv[s]))]
    /\ rcv' = [rcv EXCEPT ![s] = <<>>]
    /\ nread' = [nread EXCEPT ![s] = @ + 1]
    /\ pc' = [pc EXCEPT ![s] = "check"]
    /\ UNCHANGED <<nadd, broken, failed, greeted, last, mutex, tree, snap, serverUp,
                   nsent, pvars, mvars, gvars>>

\* the steps of a session whose client keeps the connection open
StreamStep(s) ==
    \/ Greet(s)
    \/ ReadBatch(s)
    \/ Check(s)
    \/ AddReply(s)
    \/ DelReply(s)
    \/ KnnEndReply(s)
    \/ Close(s)
    \/ StepStore(s)

NextStream == \E s \in Sessions : Accept(s) \/ Send(s) \/ StreamStep(s)

SpecStream == Init /\ [][NextStream]_vars

(***************************************************************************)
(* src/unnamed/part_000: the same server with no mutex around the tree,    *)
(* log.Fatal on a failed read or Accept, and a break on an invalid line.   *)
(***************************************************************************)
\* what ReadString('\n') may return as line k + 1 of session s: the ADD lines
\* of all the sessions are for distinct points
P0ClientLines(s, k) ==
    { ADD \o <<" ">> \o PointText(s, k) \o <<" ", "7", "\n">>,
      DEL \o <<" ">> \o PointText(1, 0) \o <<"\n">>,
      KNN \o <<" ">> \o PointText(1, 0) \o <<" ", "1", "\n">>,
      END \o <<"\n">>,
      <<"F", "O", "O", "\n">> }

\* request, err := listener.Accept(); go HandleRequest(request, tree)
P0Accept(s) ==
    /\ serverUp /\ NextToAccept(s)
    /\ pc' = [pc EXCEPT ![s] = "greet"]
    /\ UNCHANGED <<parsed, nread, nadd, broken, failed, greeted, last, mutex, tree,
                   snap, serverUp, pvars, mvars, cvars, gvars>>

\* if err != nil { log.Fatal(err) } in main: the process exits
P0AcceptFail ==
    /\ serverUp
    /\ serverUp' = FALSE
    /\ UNCHANGED <<pc, parsed, nread, nadd, broken, failed, greeted, last, mutex, tree,
                   snap, pvars, mvars, cvars, gvars>>

P0Greet(s) ==
    /\ serverUp /\ pc[s] = "greet"
    /\ last' = [last EXCEPT ![s] = Greeting]
    /\ greeted' = [greeted EXCEPT ![s] = TRUE]
    /\ pc' = [pc EXCEPT ![s] = "read"]
    /\ UNCHANGED <<parsed, nread, nadd, broken, failed, mutex, tree, snap, serverUp,
                   pvars, mvars, cvars, gvars>>

IsAdd(expr) == expr.valid /\ expr.action = ADD

P0ReadLine(s) ==
    /\ serverUp /\ pc[s] = "read"
    /\ ~broken[s] /\ TotalRead < MaxLines
    /\ \E data \in P0ClientLines(s, nread[s]) :
          /\ parsed' = [parsed EXCEPT ![s] = ParseKDtreeCommand(data)]
          /\ nadd' = [nadd EXCEPT ![s] =
                         IF IsAdd(ParseKDtreeCommand(data)) THEN @ + 1 ELSE @]
    /\ nread' = [nread EXCEPT ![s] = @ + 1]
    /\ pc' = [pc EXCEPT ![s] = "check"]
    /\ UNCHANGED <<broken, failed, greeted, last, mutex, tree, snap, serverUp, pvars, mvars, cvars, gvars>>

\* if err != nil { log.Fatal(err) } in HandleRequest: the process exits
P0ReadFail(s) ==
    /\ serverUp /\ pc[s] = "read"
    /\ broken' = [broken EXCEPT ![s] = TRUE]
    /\ failed' = [failed EXCEPT ![s] = TRUE]
    /\ serverUp' = FALSE
    /\ UNCHANGED <<pc, parsed, nread, nadd, greeted, last, mutex, tree, snap, pvars, mvars, cvars, gvars>>

P0Dispatch(action) ==
    CASE action = ADD -> "add_insert"
      [] action = DEL -> "del_remove"
      [] action = KNN -> "knn"
      [] OTHER -> "read"

\* if !parsed.valid { break }; if parsed.valid && parsed.action == "END" { break }
\* switch parsed.action
P0Check(s) ==
    /\ serverUp /\ pc[s] = "check"
    /\ pc' = [pc EXCEPT ![s] =
                 IF ~parsed[s].valid \/ parsed[s].action = END THEN "close"
                 ELSE P0Dispatch(parsed[s].action)]
    /\ UNCHANGED <<parsed, nread, nadd, broken, failed, greeted, last, mutex, tree,
                   snap, serverUp, pvars, mvars, cvars, gvars>>

\* case "ADD"
P0AddInsertBegin(s) == TreeOpBegin(s, "add_insert", "add_insert2")

P0AddInsertEnd(s) ==
    TreeOpEnd(s, "add_insert2", "add_reply",
              TreeInsert(snap[s], Record(parsed[s].point, parsed[s].data)))

P0AddReply(s) == Reply(s, "add_reply", Added(parsed[s].point))

\* case "DEL"
P0DelRemoveBegin(s) == TreeOpBegin(s, "del_remove", "del_remove2")

P0DelRemoveEnd(s) ==
    TreeOpEnd(s, "del_remove2", "del_reply", TreeRemove(snap[s], parsed[s].point))

P0DelReply(s) == Reply(s, "del_reply", Deleted(parsed[s].point))

\* case "KNN"
P0KnnBegin(s) == TreeOpBegin(s, "knn", "knn2")

P0KnnEndReply(s) ==
    Reply(s, "knn2", Neighbours(TreeKNNCount(snap[s], parsed[s].data)))

\* connection.Close()
P0Close(s) ==
    /\ serverUp /\ pc[s] = "close"
    /\ pc' = [pc EXCEPT ![s] = "closed"]
    /\ UNCHANGED <<parsed, nread, nadd, broken, failed, greeted, last, mutex, tree,
                   snap, serverUp, pvars, mvars, cvars, gvars>>

P0Step(s) ==
    \/ P0Greet(s)
    \/ P0ReadLine(s)
    \/ P0ReadFail(s)
    \/ P0Check(s)
    \/ P0AddInsertBegin(s)
    \/ P0AddInsertEnd(s)
    \/ P0AddReply(s)
    \/ P0DelRemoveBegin(s)
    \/ P0DelRemoveEnd(s)
    \/ P0DelReply(s)
    \/ P0KnnBegin(s)
    \/ P0KnnEndReply(s)
    \/ P0Close(s)

P0Next == P0AcceptFail \/ \E s \in Sessions : P0Accept(s) \/ P0Step(s)

SpecP0 == Init /\ [][P0Next]_vars

(***************************************************************************)
(* The parser's claims, on the finished parse of every generated line.     *)
(***************************************************************************)
\* the plain spaces at the start of s dropped
RECURSIVE DropSpaces(_)
DropSpaces(s) == IF s # <<>> /\ Head(s) = " " THEN DropSpaces(Tail(s)) ELSE s

\* s begins with ADD {x, y} n, KNN {x, y} n, DEL {x, y} or END, the tokens
\* separated by any number of spaces
BeginsWithShape(s) ==
    /\ ActionAt(s) > 0
    /\ LET kw == Take(s, 3)
           r1 == DropSpaces(Drop(s, 3))
           p == PointAt(r1)
       IN  \/ kw = END
           \/ kw = DEL /\ p > 0
           \/ kw \in {ADD, KNN} /\ p > 0 /\ DataAt(DropSpaces(Drop(r1, p))) > 0

Parsed == ppc = "done"

\* C6: a line that, trimmed, does not begin with one of the four command
\* shapes parses to valid = false.
C6_NoShapeIsInvalid ==
    (Parsed /\ ~BeginsWithShape(TrimSpace(pline))) => ~pexpr.valid

IsCanon == pin \in CanonInputs

\* C7: ADD {x, y} n and KNN {x, y} n parse to a valid command with that
\* action, point (x, y) and payload n, DEL {x, y} to a valid DEL with point
\* (x, y), and END to a valid END, for all x, y, n written in decimal with
\* the tokens one space apart.
C7_CanonParses ==
    (Parsed /\ IsCanon) =>
        /\ pexpr.valid
        /\ pexpr.action = pin.kw
        /\ pin.kw # END => pexpr.point = <<pin.x, pin.y>>
        /\ pin.kw \in {ADD, KNN} => pexpr.data = pin.n

\* a KNN line, which is parsed after the ADD alternative has consumed and
\* given up the whole line, with a two-digit coordinate and payload
C7_Witness ==
    /\ Parsed /\ IsCanon /\ pexpr.valid
    /\ pin.kw = KNN /\ pin.x = MaxNum /\ pin.y = 3 /\ pin.n = MaxNum
    /\ pexpr.point = <<MaxNum, 3>> /\ pexpr.data = MaxNum

\* ADD or KNN, spaces, a well-formed point, spaces and, when pin.hasn, a
\* digit group; nothing before, only the line end after
IsSpacedFull ==
    /\ pin.lead = <<>> /\ pin.kw \in {ADD, KNN} /\ pin.form = "good"
    /\ pin.sp1 >= 1
    /\ pin.tail \in {<<"\n">>, <<"\r", "\n">>}

\* C8: the payload of ADD and KNN is the digit group after the point
\* whatever the number of spaces between the tokens, and a line with no
\* digit group after the closing brace is Invalid.
C8_PayloadAfterPoint ==
    (Parsed /\ IsSpacedFull) =>
        /\ (pin.hasn /\ pin.sp2 >= 1) =>
                pexpr.valid /\ pexpr.point = <<pin.x, pin.y>> /\ pexpr.data = pin.n
        /\ ~pin.hasn => ~pexpr.valid

(***************************************************************************)
(* The claims on the sessions.                                             *)
(***************************************************************************)
\* session s is inside tree.Insert or tree.Remove: called, not yet returned
InMutation(s) == pc[s] \in {"add_insert2", "del_remove2"}

\* session s is inside tree.KNN
InKNN(s) == pc[s] = "knn2"

\* C1: in daemon.go no session is inside tree.KNN while another session is
\* inside tree.Insert or tree.Remove.
C1_KnnExcludesMutation ==
    \A s \in Sessions : \A t \in Sessions \ {s} : ~(InKNN(s) /\ InMutation(t))

\* C2: in daemon.go at most one session is inside tree.Insert or tree.Remove,
\* and that session holds the store mutex.
C2_MutationsExclusive ==
    \A s \in Sessions :
        InMutation(s) => mutex = s /\ \A t \in Sessions \ {s} : ~InMutation(t)

\* one session inside a mutation while another waits at store.Lock()
C2_Witness ==
    \E s \in Sessions : \E t \in Sessions \ {s} :
        InMutation(s) /\ pc[t] \in {"add_lock", "del_lock"}

\* the records of m ADD lines from each session: points (s, 0) .. (s, m - 1)
AddedBy(m) == SetToBag({Record(<<s, k>>, 7) : s \in Sessions, k \in 0..(m - 1)})

\* every session has issued m ADD lines and nothing else, and is done with them
AllAdded(m) ==
    /\ serverUp
    /\ \A s \in Sessions : nadd[s] = m /\ nread[s] = m /\ pc[s] = "read"

\* C3: in part_000, once N sessions have each issued M ADD commands for
\* distinct points and are done with them, the store holds exactly those
\* N x M records.
C3_AllInsertsKept ==
    \A m \in 1..MaxLines :
        AllAdded(m) => BagCardinality(tree) = NumSessions * m /\ tree = AddedBy(m)

\* C4: in daemon.go, once a read of a session has failed, the session
\* eventually reaches Closed.
C4_ReadFailureCloses ==
    \A s \in Sessions : failed[s] ~> (pc[s] = "closed")

\* C5: in part_000 a failed read on one connection leaves the server
\* process, and with it the accept loop and the other sessions, running.
C5_ReadFailureIsLocal ==
    (\E s \in Sessions : failed[s]) => serverUp

\* C9: in daemon.go the step HandleRequest takes on an Invalid line writes
\* INVALID COMMAND, leaves the tree and the mutex alone, and goes back to
\* reading.
C9_InvalidLeavesStore ==
    [][\A s \in Sessions :
          (pc[s] = "check" /\ ~parsed[s].valid /\ pc'[s] # "check") =>
              /\ last'[s] = InvalidCommand
              /\ pc'[s] = "read"
              /\ tree' = tree /\ mutex' = mutex /\ snap'[s] = snap[s]]_vars

\* a session back at reading after the INVALID COMMAND response, its
\* connection still open
C9_Witness ==
    \E s \in Sessions :
        pc[s] = "read" /\ last[s] = InvalidCommand /\ nread[s] >= 1 /\ ~broken[s]

\* session s has left the loop
Left(s) == pc[s] \in {"close", "closed"}

\* C10: in daemon.go a session reads (or fails to read) no line before it
\* has written the greeting; the step taken on an END command writes the
\* farewell and leaves the loop; and a session that has left the loop can
\* close the connection, and reads, dispatches and writes nothing more.
C10_GreetingFirstEndLast ==
    /\ [](\A s \in Sessions :
            /\ (pc[s] \notin {"idle", "greet"}) => greeted[s]
            /\ (nread[s] > 0 \/ failed[s]) => greeted[s]
            /\ pc[s] = "close" => ENABLED Close(s)
            /\ Left(s) => last[s] = Bye)
    /\ [][\A s \in Sessions :
            /\ (pc[s] = "check" /\ parsed[s].valid /\ parsed[s].action = END
                    /\ pc'[s] # "check")
                => (pc'[s] = "close" /\ last'[s] = Bye /\ tree' = tree)
            /\ Left(s) =>
                /\ pc'[s] \in {pc[s], "closed"}
                /\ nread'[s] = nread[s] /\ parsed'[s] = parsed[s]
                /\ last'[s] = last[s]
                /\ (pc'[s] # pc[s] => tree' = tree)]_vars

\* a closed session whose last response is the farewell, while its client
\* has not gone away and could still send lines
C10_Witness ==
    \E s \in Sessions :
        pc[s] = "closed" /\ last[s] = Bye /\ ~broken[s] /\ TotalRead < MaxLines

\* C11: the store operations of one session run one after the other in the
\* order of its lines: an operation serves a line the session has read, an
\* operation begins only when every operation the session began before has
\* completed, it serves the line read last, which is later than the line of
\* any earlier operation, and the operation that completes is the one begun
\* last.
C11_SessionOrder ==
    /\ [](\A s \in Sessions : opDone[s] <= opBegun[s] /\ opBegun[s] <= nread[s])
    /\ [][\A s \in Sessions :
            /\ opBegun'[s] # opBegun[s] =>
                  /\ opDone[s] = opBegun[s]
                  /\ opBegun'[s] = nread[s]
                  /\ opBegun'[s] > opBegun[s]
            /\ opDone'[s] # opDone[s] => opDone'[s] = opBegun[s]]_vars

\* a session that completed the operation of one line and has begun the
\* operation of a later line
C11_Witness ==
    \E s \in Sessions : opDone[s] >= 1 /\ opBegun[s] > opDone[s]

\* DEL {x, y} in the protocol's form, and then a digit group or other text
IsDelWithExtra ==
    /\ pin.lead = <<>> /\ pin.kw = DEL /\ pin.sp1 = 1 /\ pin.form = "good"
    /\ (pin.hasn \/ pin.tail \in ExtraTails)

\* ADD or KNN {x, y} n in the protocol's form, and then other text
IsFullWithExtra ==
    /\ pin.lead = <<>> /\ pin.kw \in {ADD, KNN} /\ pin.sp1 = 1 /\ pin.form = "good"
    /\ pin.sp2 = 1 /\ pin.hasn /\ pin.tail \in ExtraTails

\* C17: a line that begins with a complete command in the protocol's form
\* and goes on with extra text is parsed as that command: DEL {x, y} and
\* text gives a valid DEL with point (x, y); ADD or KNN {x, y} n and text
\* gives a valid command of that action with point (x, y) and payload n.
C17_ExtraTextIgnored ==
    /\ (Parsed /\ IsDelWithExtra) =>
          pexpr.valid /\ pexpr.action = DEL /\ pexpr.point = <<pin.x, pin.y>>
    /\ (Parsed /\ IsFullWithExtra) =>
          /\ pexpr.valid /\ pexpr.action = pin.kw
          /\ pexpr.point = <<pin.x, pin.y>> /\ pexpr.data = pin.n

\* `ADD {10, 3} 5 DEL 7` parsed as ADD with point (10, 3) and payload 5
C17_Witness ==
    /\ Parsed /\ IsFullWithExtra
    /\ pin.kw = ADD /\ pin.tail = <<" ", "D", "E", "L", " ", "7", "\n">>
    /\ pin.x = MaxNum /\ pin.n = 5
    /\ pexpr.valid /\ pexpr.action = ADD /\ pexpr.point = <<MaxNum, 3>>
    /\ pexpr.data = 5

\* C15: whenever an alternative of ParseKDtreeCommand (IsAddCommand,
\* IsKnnCommand, IsDelCommand, IsEndAction) has returned false, the cursor is
\* at 0, whether a token failed to match or all tokens matched and the
\* keyword was not the alternative's own.
C15_FailedAlternativeResets ==
    (ppc \in {"knn", "del", "end", "return"} /\ ~pok) => pexpr.position = 0

\* IsAddCommand has returned false on a line whose three tokens all matched:
\* the keyword is KNN, the point and a payload above 0 are set
C15_Witness ==
    /\ ppc = "knn" /\ ~pok
    /\ pexpr.action = KNN /\ pexpr.point = <<pin.x, pin.y>> /\ pexpr.data > 0
    /\ pexpr.position = 0

(***************************************************************************)
(* Claims on Match and SkipWhitespace, checked on SpecMatch.               *)
(***************************************************************************)
\* length of the maximal run of plain spaces at the start of s
RECURSIVE SpaceRun(_)
SpaceRun(s) ==
    IF s # <<>> /\ Head(s) = " " THEN 1 + SpaceRun(Tail(s)) ELSE 0

\* index of the first character at or after the cursor the running Match was
\* called with that is not a space (the length of the buffer if there is none)
FirstNonSpace == mfrom + SpaceRun(Drop(mexpr.buffer, mfrom))

\* C13: when Match succeeds the returned text is the text of the buffer that
\* starts at the first non-space character at or after the cursor of the
\* call, and the cursor is the index just past the last character of that
\* text; when Match fails the cursor is not past any non-space character.
C13_MatchCursor ==
    /\ mphase = "matched" =>
          /\ mtoken = SubSeq(mexpr.buffer, FirstNonSpace + 1, FirstNonSpace + Len(mtoken))
          /\ mexpr.position = FirstNonSpace + Len(mtoken)
    /\ mphase = "nomatch" => mexpr.position <= FirstNonSpace

\* C14: SkipWhitespace leaves the cursor just past the maximal run of plain
\* spaces that starts at the cursor it was called with: on the first
\* character that is not a plain space, or at the end of the buffer.
C14_SkipWhitespaceRun ==
    mphase = "skipped" => mexpr.position = FirstNonSpace

\* C18: at every step of every parse the cursor is within the buffer, so
\* Current() slices in range, and the text a successful Match of the point
\* token returns holds the two digit groups MakePoint indexes.
C18_CursorInRange ==
    /\ 0 <= mexpr.position /\ mexpr.position <= Len(mexpr.buffer)
    /\ 0 <= mfrom /\ mfrom <= Len(mexpr.buffer)
    /\ (mstage = 2 /\ mphase = "matched") => Len(FindAllDigits(mtoken)) = 2

\* the Match of the payload has moved the cursor to the very end of a buffer
\* whose last alternative but one is running, after resets to 0
C18_Witness ==
    /\ malt = 2 /\ mstage = 3 /\ mphase = "matched"
    /\ mexpr.position = Len(mexpr.buffer) /\ mexpr.position > 0
    /\ Len(FindAllDigits(mexpr.buffer)) = 3

(***************************************************************************)
(* Claims on the mutex of daemon.go, checked on Spec.                      *)
(***************************************************************************)
\* session s is at the mutation of an ADD or a DEL: store.Lock() has returned
\* and store.Unlock() has not, the statement between them being tree.Insert
\* or tree.Remove
AtMutation(s) ==
    pc[s] \in {"add_insert", "add_insert2", "add_unlock",
               "del_remove", "del_remove2", "del_unlock"}

\* C16: in daemon.go the mutex is held only by a session that is at its
\* tree.Insert or tree.Remove: a session that is not there (it reads a line,
\* checks it, waits for the mutex, runs a KNN, writes a response, or is
\* closed) does not hold the mutex, and the mutex is free whenever no
\* session is at a mutation.
C16_MutexOnlyAroundMutation ==
    /\ mutex \in Sessions \cup {0}
    /\ \A s \in Sessions : ~AtMutation(s) => mutex # s
    /\ (\A s \in Sessions : ~AtMutation(s)) => mutex = 0

\* a session writes the response to its ADD, the mutex released, while
\* another session holds the mutex inside its mutation
C16_Witness ==
    \E s, t \in Sessions :
        pc[s] = "add_reply" /\ mutex # s /\ t # s /\ InMutation(t) /\ mutex = t

(***************************************************************************)
(* Claims on the lines of a connection, checked on SpecStream.             *)
(***************************************************************************)
\* C19: no line is lost: every line a client has sent on a connection either
\* still waits in the socket, where a later read finds it, or has been read
\* and parsed, once; also when several lines arrived before one read.
C19_NoLineLost ==
    \A s \in Sessions : nsent[s] = nread[s] + Len(rcv[s])

=============================================================================
